---- MODULE Spec2Model ----
(***************************************************************************)
(* The JJY receiver firmware of src/src/main.rs: jjy_task (edge sampler,   *)
(* pulse-width classifier, frame decoder), display_task (clock renderer)   *)
(* and DRAW_CHANNEL, the bounded channel between them.                     *)
(*                                                                         *)
(* Both tasks run on one cooperative executor, so an action is what a task *)
(* does from one suspension point (.await) to the next.                    *)
(***************************************************************************)
EXTENDS Integers, Sequences, FiniteSets, TLC

(***************************************************************************)
(* Bounds of the model.                                                    *)
(***************************************************************************)
\* pulses the free input line produces (specification Spec)
MaxPulses == 4
\* pulses the frame transmitter produces (specification SpecFrame)
MaxTxPulses == 101
\* pulses the free input line produces under fair scheduling (SpecFair)
MaxFairPulses == 3
\* the longest pulse, in ms, the classifier is given (specification SpecClassify)
MaxElapsed == 2000

(***************************************************************************)
(* Program constants.                                                      *)
(***************************************************************************)
\* Channel<_, StatusUpdate, 4>
Capacity == 4
\* [BitWidth::Unknown; 60] and cursor %= 60
BufLen == 60
\* if cursor == 38
DecodeAt == 38
\* is_in_width(ms, 200) / (ms, 500) / (ms, 800)
MarkerWidth == 200
ShortWidth == 500
LongWidth == 800
\* (1.0 + ALLOWED_ERROR) as f32 is 10066330 / 2^23 (0x3F99999A)
MaxFactorMant == 10066330
MaxFactorExp == 23
\* (1.0 - ALLOWED_ERROR) as f32 is 13421773 / 2^24 (0x3F4CCCCD)
MinFactorMant == 13421773
MinFactorExp == 24
\* "+25 is dirty hack"
RenderBias == 25
\* 60 * 60 * 24
DaySeconds == 86400

(***************************************************************************)
(* enum BitWidth, Option and StatusUpdate.                                 *)
(***************************************************************************)
Unknown == "Unknown"
Marker == "Marker"
Short == "Short"
Long == "Long"
BitWidth == {Unknown, Marker, Short, Long}

None == <<>>
Some(v) == <<v>>
IsSome(o) == o # None
Unwrap(o) == o[1]

\* BitWidth::try_as_bool
try_as_bool(b) ==
  CASE b = Unknown -> None
    [] b = Marker -> None
    [] b = Short -> Some(TRUE)
    [] b = Long -> Some(FALSE)

\* struct TimeBase
TimeBase(system_time, clock) == [system_time |-> system_time, clock |-> clock]

\* enum StatusUpdate
JJYStatus(b) == [type |-> "JJYStatus", status |-> b]
TimeBaseUpdate(tb) == [type |-> "TimeBaseUpdate", base |-> tb]

(***************************************************************************)
(* is_in_width, in the f32 arithmetic of the source.  An f32 is kept as an *)
(* integer significand of 24 bits and a binary exponent; the products are  *)
(* rounded to nearest, ties to even, as the hardware or soft-float does.   *)
(* The product n * mant is formed in two 12-bit halves so that no          *)
(* intermediate value leaves 31 bits.  right_hand is below 2^10 here (the  *)
(* call sites pass 200, 500 and 800) and left_hand below 2^24, so that     *)
(* both "as f32" conversions are exact.                                    *)
(***************************************************************************)
RECURSIVE BitLen(_)
BitLen(x) == IF x = 0 THEN 0 ELSE 1 + BitLen(x \div 2)

\* n * (mant / 2^exp) rounded to f32: <<r, q>> standing for r / 2^q
F32Mul(n, mant, exp) ==
  LET mh == mant \div 4096
      ml == mant % 4096
      a == n * mh + (n * ml) \div 4096
      b == (n * ml) % 4096
      s == BitLen(a) - 12
      quo == a * 2^(12 - s) + b \div 2^s
      rem == b % 2^s
      half == 2^(s - 1)
      r == IF rem > half \/ (rem = half /\ quo % 2 = 1) THEN quo + 1 ELSE quo
  IN  <<r, exp - s>>

\* left_hand as f32 < r / 2^q, for an integer left_hand
IntLtF32(a, f) == a * 2^f[2] < f[1]
\* r / 2^q < left_hand as f32
F32LtInt(f, a) == f[1] < a * 2^f[2]

\* max_time and min_time of the three widths is_in_width is called with
WidthLimits ==
  [right_hand \in {MarkerWidth, ShortWidth, LongWidth} |->
     [max_time |-> F32Mul(right_hand, MaxFactorMant, MaxFactorExp),
      min_time |-> F32Mul(right_hand, MinFactorMant, MinFactorExp)]]

is_in_width(left_hand, right_hand) ==
  /\ F32LtInt(WidthLimits[right_hand].min_time, left_hand)
  /\ IntLtF32(left_hand, WidthLimits[right_hand].max_time)

\* let bit = match elapsed_ms { ... }
Classify(elapsed_ms) ==
  CASE is_in_width(elapsed_ms, MarkerWidth) -> Marker
    [] ~is_in_width(elapsed_ms, MarkerWidth)
       /\ is_in_width(elapsed_ms, ShortWidth) -> Short
    [] ~is_in_width(elapsed_ms, MarkerWidth)
       /\ ~is_in_width(elapsed_ms, ShortWidth)
       /\ is_in_width(elapsed_ms, LongWidth) -> Long
    [] OTHER -> Unknown

(***************************************************************************)
(* to_minute_hour_day.  buf is indexed from 0, as in the source.           *)
(***************************************************************************)
\* <<position, weight>> of the "minute += w" statements, in source order
MinuteBits == <<<<1, 40>>, <<2, 20>>, <<3, 10>>, <<5, 8>>, <<6, 4>>, <<7, 2>>, <<8, 1>>>>
\* of the "hour += w" statements
HourBits == <<<<12, 20>>, <<13, 10>>, <<15, 8>>, <<16, 4>>, <<17, 2>>, <<18, 1>>>>
\* the weights 80 and 40 exchanged
MutDayBitsSwapped == <<<<22, 200>>, <<23, 100>>, <<25, 40>>, <<26, 80>>, <<27, 20>>,
                       <<28, 10>>, <<30, 8>>, <<31, 4>>, <<32, 2>>, <<33, 1>>>>

\* of the "day += w" statements
DayBits == <<<<22, 200>>, <<23, 100>>, <<25, 80>>, <<26, 40>>, <<27, 20>>,
             <<28, 10>>, <<30, 8>>, <<31, 4>>, <<32, 2>>, <<33, 1>>>>
\* buf[36] is compared with hour_parity, buf[37] with minute_parity
HourParityPos == 36
MinuteParityPos == 37

\* every position the function reads with "?"
ReadPositions ==
  {MinuteBits[i][1] : i \in DOMAIN MinuteBits}
    \cup {HourBits[i][1] : i \in DOMAIN HourBits}
    \cup {DayBits[i][1] : i \in DOMAIN DayBits}
    \cup {HourParityPos, MinuteParityPos}

\* the sum a run of "if buf[p].try_as_bool()? { field += w }" leaves in field
RECURSIVE FieldSum(_, _, _)
FieldSum(buf, bits, i) ==
  IF i > Len(bits) THEN 0
  ELSE (IF try_as_bool(buf[bits[i][1]]) = Some(TRUE) THEN bits[i][2] ELSE 0)
       + FieldSum(buf, bits, i + 1)

\* the value the run of "parity = !parity" leaves in parity
RECURSIVE FieldParity(_, _, _)
FieldParity(buf, bits, i) ==
  IF i > Len(bits) THEN FALSE
  ELSE (try_as_bool(buf[bits[i][1]]) = Some(TRUE)) # FieldParity(buf, bits, i + 1)

\* the function without the two parity comparisons
MutDecodeWithoutParity(buf) ==
  IF \E p \in ReadPositions : try_as_bool(buf[p]) = None THEN None
  ELSE Some(<<FieldSum(buf, MinuteBits, 1), FieldSum(buf, HourBits, 1),
              FieldSum(buf, DayBits, 1)>>)

to_minute_hour_day(buf) ==
  IF \E p \in ReadPositions : try_as_bool(buf[p]) = None THEN None
  ELSE IF Unwrap(try_as_bool(buf[HourParityPos])) # FieldParity(buf, HourBits, 1) THEN None
  ELSE IF Unwrap(try_as_bool(buf[MinuteParityPos])) # FieldParity(buf, MinuteBits, 1) THEN None
  ELSE Some(<<FieldSum(buf, MinuteBits, 1), FieldSum(buf, HourBits, 1),
              FieldSum(buf, DayBits, 1)>>)

\* the clock without the seconds the cursor stands for
MutTimeBaseWithoutCursor(mhd, cur, at) == TimeBase(at, mhd[1] * 60 + mhd[2] * 3600)

\* clock: minute * 60 + hour * 3600 + (cursor as u32), system_time: up_at
\* (u32: the largest value, 85 * 60 + 45 * 3600 + 38, is far below 2^32)
NewTimeBase(mhd, cur, at) == TimeBase(at, mhd[1] * 60 + mhd[2] * 3600 + cur)

(***************************************************************************)
(* The frame decoder's steps on one classified symbol (jjy_task's loop     *)
(* body after the classification).                                         *)
(***************************************************************************)
\* if bit == BitWidth::Marker { if previous_is_marker { ... } }
FrameStart(b, pim) == b = Marker /\ pim

\* a frame start that does not set recording
MutRecordingNeverSet(b, pim, rec) == rec

\* recording = true, on a frame start
RecordingAfter(b, pim, rec) == IF FrameStart(b, pim) THEN TRUE ELSE rec

\* a frame start that leaves the cursor where it is
MutCursorAfterKeeps(b, pim, cur) == cur

\* cursor = 0, on a frame start
CursorAfter(b, pim, cur) == IF FrameStart(b, pim) THEN 0 ELSE cur

\* previous_is_marker = true / previous_is_marker = false
PreviousAfter(b) == b = Marker

\* buffer[cursor] = bit
StoreBit(buf, cur, b) == [buf EXCEPT ![cur] = b]

\* cursor += 1 without the wrap
MutNextCursorNoWrap(cur) == cur + 1

\* cursor += 1; cursor %= 60
NextCursor(cur) == (cur + 1) % BufLen

(***************************************************************************)
(* The JJY signal, as the transmitter sends it (the environment): a frame  *)
(* of 60 pulses, minute, hour and day of year in BCD with Short = 1 and    *)
(* Long = 0, even parity of the hour at 36 and of the minute at 37, a      *)
(* Marker at 0, 9, 19, 29, 39, 49 and 59, Long elsewhere.                  *)
(***************************************************************************)
MarkerPositions == {0, 9, 19, 29, 39, 49, 59}

\* <<position, weight>> of the bits of each field, as transmitted
TxMinuteBits == <<<<1, 40>>, <<2, 20>>, <<3, 10>>, <<5, 8>>, <<6, 4>>, <<7, 2>>, <<8, 1>>>>
TxHourBits == <<<<12, 20>>, <<13, 10>>, <<15, 8>>, <<16, 4>>, <<17, 2>>, <<18, 1>>>>
TxDayBits == <<<<22, 200>>, <<23, 100>>, <<25, 80>>, <<26, 40>>, <<27, 20>>,
               <<28, 10>>, <<30, 8>>, <<31, 4>>, <<32, 2>>, <<33, 1>>>>

\* the positions a field's bits are sent at
TxPositions(bits) == {bits[i][1] : i \in DOMAIN bits}

\* the weight of the bit sent at position p
TxWeight(bits, p) == bits[CHOOSE i \in DOMAIN bits : bits[i][1] = p][2]

\* the bit of weight w (1, 2, 4, 8 times 1, 10 or 100) in the BCD digits of v
BcdBit(v, w) ==
  LET unit == IF w >= 100 THEN 100 ELSE IF w >= 10 THEN 10 ELSE 1
  IN  (((v \div unit) % 10) \div (w \div unit)) % 2 = 1

BitSymbol(t) == IF t THEN Short ELSE Long

RECURSIVE BcdParity(_, _, _)
BcdParity(v, bits, i) ==
  IF i > Len(bits) THEN FALSE ELSE BcdBit(v, bits[i][2]) # BcdParity(v, bits, i + 1)

EncodeFrame(minute, hour, day) ==
  [p \in 0 .. BufLen - 1 |->
     IF p \in MarkerPositions THEN Marker
     ELSE IF p \in TxPositions(TxMinuteBits)
       THEN BitSymbol(BcdBit(minute, TxWeight(TxMinuteBits, p)))
     ELSE IF p \in TxPositions(TxHourBits)
       THEN BitSymbol(BcdBit(hour, TxWeight(TxHourBits, p)))
     ELSE IF p \in TxPositions(TxDayBits)
       THEN BitSymbol(BcdBit(day, TxWeight(TxDayBits, p)))
     ELSE IF p = 36 THEN BitSymbol(BcdParity(hour, TxHourBits, 1))
     ELSE IF p = 37 THEN BitSymbol(BcdParity(minute, TxMinuteBits, 1))
     ELSE Long]

\* a pulse width of each class, in ms: the nominal widths, and a glitch
WidthOf(b) ==
  CASE b = Marker -> MarkerWidth
    [] b = Short -> ShortWidth
    [] b = Long -> LongWidth
    [] b = Unknown -> 100

\* the widths the free input line chooses from
PulseWidths == {WidthOf(b) : b \in BitWidth}

\* the frames the transmitter sends (minute, hour, day of year)
TxFrames == {<<34, 12, 158>>, <<59, 23, 366>>}
\* the frame positions at which reception noise may replace the symbol sent
NoisePositions == {0, 5, 20, 37, 59}
\* the transmitter is first heard at the last pulse of a minute
TxStart == BufLen - 1

(***************************************************************************)
(* State.                                                                  *)
(***************************************************************************)
VARIABLES
  now,                 \* Instant::now().as_millis()
  line,                \* level of the JJY input pin
  pulses,              \* falling edges the line has produced
  pc,                  \* the .await jjy_task is suspended at
  up_at, down_at, bit, \* locals of jjy_task's loop body
  buffer, cursor, recording, previous_is_marker,
  result,              \* what to_minute_hour_day returned last
  channel,             \* DRAW_CHANNEL's queue
  dpc,                 \* the step display_task is at
  timebase, jjy_status,
  lcd,                 \* the data bytes of the last redraw
  txpos, frame, noise, \* the transmitter: position, frame sent, noise left
  syms,                \* history: the symbols classified so far
  sent,                \* history: the updates the channel accepted
  rcvd,                \* history: the updates display_task received
  last,                \* history: how the latest symbol was dealt with
  arg                  \* input of a pure function under check

envVars == <<now, line, pulses>>
txVars == <<txpos, frame, noise>>
decVars == <<buffer, cursor, recording, previous_is_marker, result>>
jjyVars == <<pc, up_at, down_at, bit, buffer, cursor, recording,
             previous_is_marker, result, syms, last>>
dispVars == <<dpc, timebase, jjy_status, lcd, rcvd>>
vars == <<now, line, pulses, pc, up_at, down_at, bit, buffer, cursor, recording,
          previous_is_marker, result, channel, dpc, timebase, jjy_status, lcd,
          txpos, frame, noise, syms, sent, rcvd, last, arg>>

\* the state after both tasks are spawned and the LCD is initialised
InitTasks ==
  /\ now = 0 /\ line = "high" /\ pulses = 0
  /\ pc = "wait_fall"
  /\ up_at = 0 /\ down_at = 0 /\ bit = Unknown
  /\ buffer = [i \in 0 .. BufLen - 1 |-> Unknown]
  /\ cursor = 0
  /\ recording = FALSE
  /\ previous_is_marker = FALSE
  /\ result = None
  /\ channel = <<>>
  /\ dpc = "receive"
  /\ timebase = None
  /\ jjy_status = FALSE
  /\ lcd = <<>>
  /\ syms = <<>> /\ sent = <<>> /\ rcvd = <<>> /\ last = "none"
  /\ arg = <<>>

Init == InitTasks /\ txpos = 0 /\ frame = <<0, 0, 0>> /\ noise = 0

(***************************************************************************)
(* jjy_task.                                                               *)
(***************************************************************************)
\* a channel with room for a fifth update
MutFullAtFive(ch) == Len(ch) = Capacity + 1

\* the channel has no room: send() suspends
Full(ch) == Len(ch) = Capacity

\* the assignments one run of the decoder makes
Land(pcv, buf, cur, rec, pim, res, ch, snt, lst) ==
  /\ pc' = pcv
  /\ buffer' = buf
  /\ cursor' = cur
  /\ recording' = rec
  /\ previous_is_marker' = pim
  /\ result' = res
  /\ channel' = ch
  /\ sent' = snt
  /\ last' = lst

\* the reset without "cursor = 0"
MutAbortKeepsCursor(buf, pim, res, ch, snt, lst) ==
  Land("wait_fall", buf, cursor, FALSE, pim, res, ch, snt, lst)

\* the reset without "recording = false"
MutAbortKeepsRecording(buf, pim, res, ch, snt, lst) ==
  Land("wait_fall", buf, 0, recording, pim, res, ch, snt, lst)

\* cursor = 0; recording = false; continue
Abort(buf, pim, res, ch, snt, lst) ==
  Land("wait_fall", buf, 0, FALSE, pim, res, ch, snt, lst)

\* the TimeBaseUpdate sent at cursor == 38
Publication(res, cur, at) == TimeBaseUpdate(NewTimeBase(Unwrap(res), cur, at))

\* from "let elapsed_ms" to the end of the loop body or to a send that
\* suspends; ch and snt are the channel and its history once JJYStatus(false)
\* is in, dn is down_at.  (elapsed_ms is a u32; the model's times stay far
\* below 2^32.)
Process(ch, snt, dn) ==
  \E b \in {Classify(dn - up_at)} :
    LET rec == RecordingAfter(b, previous_is_marker, recording)
        cur == CursorAfter(b, previous_is_marker, cursor)
        pim == PreviousAfter(b)
    IN  /\ bit' = b
        /\ syms' = Append(syms, b)
        /\ IF b = Unknown
             THEN Abort(buffer, previous_is_marker, result, ch, snt, "unknown")
           ELSE IF ~rec
             THEN Land("wait_fall", buffer, cur, rec, pim, result, ch, snt, "idle")
           ELSE IF cur # DecodeAt
             THEN Land("wait_fall", StoreBit(buffer, cur, b), NextCursor(cur), rec, pim,
                       result, ch, snt, "stored")
           ELSE \E res \in {to_minute_hour_day(buffer)} :
             IF res = None
               THEN Abort(buffer, pim, res, ch, snt, "failed")
             ELSE IF ~Full(ch)
               THEN Land("wait_fall", StoreBit(buffer, cur, b), NextCursor(cur), rec, pim,
                         res, Append(ch, Publication(res, cur, up_at)),
                         Append(snt, Publication(res, cur, up_at)), "published")
             ELSE Land("send_tb", buffer, cur, rec, pim, res, ch, snt, "publishing")

\* try_send in place of send().await: a full channel drops the update
MutOnFallingTrySend(t) ==
  /\ up_at' = t
  /\ channel' = IF Full(channel) THEN channel ELSE Append(channel, JJYStatus(TRUE))
  /\ sent' = Append(sent, JJYStatus(TRUE))
  /\ pc' = "wait_rise"
  /\ UNCHANGED <<down_at, bit, decVars, syms, last>>

\* JJYStatus(false) sent at the falling edge
MutOnFallingSendsFalse(t) ==
  /\ up_at' = t
  /\ IF ~Full(channel)
       THEN /\ channel' = Append(channel, JJYStatus(FALSE))
            /\ sent' = Append(sent, JJYStatus(FALSE))
            /\ pc' = "wait_rise"
       ELSE /\ pc' = "send_true"
            /\ UNCHANGED <<channel, sent>>
  /\ UNCHANGED <<down_at, bit, decVars, syms, last>>

\* wait_for_falling_edge returns: up_at, then send(JJYStatus(true))
OnFalling(t) ==
  /\ up_at' = t
  /\ IF ~Full(channel)
       THEN /\ channel' = Append(channel, JJYStatus(TRUE))
            /\ sent' = Append(sent, JJYStatus(TRUE))
            /\ pc' = "wait_rise"
       ELSE /\ pc' = "send_true"
            /\ UNCHANGED <<channel, sent>>
  /\ UNCHANGED <<down_at, bit, decVars, syms, last>>

\* wait_for_rising_edge returns: down_at, then send(JJYStatus(false)) and,
\* unless it suspends, the rest of the loop body
OnRising(t) ==
  /\ down_at' = t
  /\ IF ~Full(channel)
       THEN Process(Append(channel, JJYStatus(FALSE)), Append(sent, JJYStatus(FALSE)), t)
       ELSE /\ pc' = "send_false"
            /\ UNCHANGED <<channel, sent, bit, decVars, syms, last>>
  /\ UNCHANGED up_at

\* a send that was suspended on the full channel completes
ResumeSend ==
  /\ pc \in {"send_true", "send_false", "send_tb"}
  /\ ~Full(channel)
  /\ CASE pc = "send_true" ->
            /\ channel' = Append(channel, JJYStatus(TRUE))
            /\ sent' = Append(sent, JJYStatus(TRUE))
            /\ pc' = "wait_rise"
            /\ UNCHANGED <<up_at, down_at, bit, decVars, syms, last>>
       [] pc = "send_false" ->
            /\ Process(Append(channel, JJYStatus(FALSE)),
                       Append(sent, JJYStatus(FALSE)), down_at)
            /\ UNCHANGED <<up_at, down_at>>
       [] pc = "send_tb" ->
            /\ Land("wait_fall", StoreBit(buffer, cursor, bit), NextCursor(cursor),
                    recording, previous_is_marker, result,
                    Append(channel, Publication(result, cursor, up_at)),
                    Append(sent, Publication(result, cursor, up_at)), "published")
            /\ UNCHANGED <<up_at, down_at, bit, syms>>
  /\ UNCHANGED <<envVars, txVars, dispVars, arg>>

(***************************************************************************)
(* display_task.                                                           *)
(***************************************************************************)
Spaces(n) == [i \in 1 .. n |-> 32]

\* the seconds without the "+25"
MutClockSecondsNoBias(tb, t) ==
  (tb.clock + (t - tb.system_time) \div 1000) % DaySeconds

\* the seconds without "% (60 * 60 * 24)"
MutClockSecondsNoWrap(tb, t) ==
  tb.clock + (t - tb.system_time + RenderBias) \div 1000

\* the seconds of the day the redraw shows (diff is a u32, clock + diff a
\* u32 sum; the model's times stay far below 2^32)
ClockSeconds(tb, t) ==
  LET diff == (t - tb.system_time + RenderBias) \div 1000
  IN  (tb.clock + diff) % DaySeconds

\* the eight bytes of HH:MM:SS
ClockText(tb, t) ==
  LET remaining == ClockSeconds(tb, t)
      hour == remaining \div (60 * 60)
      minute == (remaining % (60 * 60)) \div 60
      sec == (remaining % (60 * 60)) % 60
  IN  <<48 + (hour \div 10), 48 + (hour % 10), 58,
        48 + (minute \div 10), 48 + (minute % 10), 58,
        48 + (sec \div 10), 48 + (sec % 10)>>

\* "Sync"
SyncText == <<83, 121, 110, 99>>

\* the data bytes one redraw sends after Display Clear
Render(tbo, status, t) ==
  (IF tbo # None THEN ClockText(Unwrap(tbo), t) \o Spaces(32)
                 ELSE SyncText \o Spaces(36))
    \o <<IF status THEN 255 ELSE 32>>

\* a redraw after which display_task does not come back to the receive
MutRedrawNeverReturns ==
  /\ dpc = "redraw"
  /\ lcd' = Render(timebase, jjy_status, now)
  /\ dpc' = "redraw"
  /\ UNCHANGED <<envVars, txVars, jjyVars, channel, sent, timebase, jjy_status,
                 rcvd, arg>>

\* a status update that clears the time base
MutReceiveStatusClearsTimeBase ==
  /\ dpc = "receive"
  /\ channel # <<>>
  /\ LET m == Head(channel)
     IN  /\ IF m.type = "TimeBaseUpdate"
              THEN timebase' = Some(m.base) /\ UNCHANGED jjy_status
              ELSE jjy_status' = m.status /\ timebase' = None
         /\ rcvd' = Append(rcvd, m)
  /\ channel' = Tail(channel)
  /\ dpc' = "redraw"
  /\ UNCHANGED <<envVars, txVars, jjyVars, sent, lcd, arg>>

\* DRAW_CHANNEL.receiver().receive().await and the match on the update
Receive ==
  /\ dpc = "receive"
  /\ channel # <<>>
  /\ LET m == Head(channel)
     IN  /\ IF m.type = "TimeBaseUpdate"
              THEN timebase' = Some(m.base) /\ UNCHANGED jjy_status
              ELSE jjy_status' = m.status /\ UNCHANGED timebase
         /\ rcvd' = Append(rcvd, m)
  /\ channel' = Tail(channel)
  /\ dpc' = "redraw"
  /\ UNCHANGED <<envVars, txVars, jjyVars, sent, lcd, arg>>

\* Display Clear and the redraw of the line
Redraw ==
  /\ dpc = "redraw"
  /\ lcd' = Render(timebase, jjy_status, now)
  /\ dpc' = "receive"
  /\ UNCHANGED <<envVars, txVars, jjyVars, channel, sent, timebase, jjy_status,
                 rcvd, arg>>

(***************************************************************************)
(* The input line.  A pulse starts on a second's boundary with a falling   *)
(* edge and ends with a rising edge; an edge wakes jjy_task only if it is  *)
(* waiting for that edge.                                                  *)
(***************************************************************************)
Falls ==
  /\ line = "high"
  /\ line' = "low"
  /\ pulses' = pulses + 1
  /\ now' = (now \div 1000 + 1) * 1000
  /\ IF pc = "wait_fall" THEN OnFalling(now')
     ELSE UNCHANGED <<jjyVars, channel, sent>>
  /\ UNCHANGED <<dispVars, arg>>

Rises(w) ==
  /\ line = "low"
  /\ line' = "high"
  /\ now' = now + w
  /\ IF pc = "wait_rise" THEN OnRising(now')
     ELSE UNCHANGED <<jjyVars, channel, sent>>
  /\ UNCHANGED <<pulses, dispVars, arg>>

\* the free line: any pulse width, whatever the tasks are doing
LineFalls == pulses < MaxPulses /\ Falls /\ UNCHANGED txVars

LineRises == \E w \in PulseWidths : Rises(w) /\ UNCHANGED txVars

Next == LineFalls \/ LineRises \/ ResumeSend \/ Receive \/ Redraw

Spec == Init /\ [][Next]_vars

\* the executor polls a task that is ready: display_task when an update
\* waits in the channel or a redraw is due, jjy_task when the channel has
\* room for its suspended send
FairLineFalls == pulses < MaxFairPulses /\ Falls /\ UNCHANGED txVars

NextFair == FairLineFalls \/ LineRises \/ ResumeSend \/ Receive \/ Redraw

SpecFair ==
  /\ Init /\ [][NextFair]_vars
  /\ WF_vars(Receive) /\ WF_vars(Redraw) /\ WF_vars(ResumeSend)

(***************************************************************************)
(* The transmitter: frame after frame, each pulse as sent or, once and at  *)
(* a position of NoisePositions, received as a pulse of another class.     *)
(* Its edges come while jjy_task waits for them.                           *)
(***************************************************************************)
TxSymbol == EncodeFrame(frame[1], frame[2], frame[3])[txpos]

TxFalls == pulses < MaxTxPulses /\ pc = "wait_fall" /\ Falls /\ UNCHANGED txVars

TxRises ==
  /\ pc = "wait_rise"
  /\ \E sym \in {TxSymbol}, b \in BitWidth :
       /\ b = sym \/ (noise > 0 /\ txpos \in NoisePositions)
       /\ noise' = IF b = sym THEN noise ELSE noise - 1
       /\ Rises(WidthOf(b))
  /\ txpos' = (txpos + 1) % BufLen
  /\ UNCHANGED frame

InitFrame == InitTasks /\ txpos = TxStart /\ frame \in TxFrames /\ noise = 1

NextFrame == TxFalls \/ TxRises \/ ResumeSend \/ Receive \/ Redraw

SpecFrame == InitFrame /\ [][NextFrame]_vars

(***************************************************************************)
(* to_minute_hour_day on its own: a buffer is drawn, the function is       *)
(* called on it, and then one data bit is changed and it is called again.  *)
(***************************************************************************)
\* the days of the year tried with every minute and hour
DaySample == {1, 158, 366}
\* the minute and hour tried with every day of the year
ClockSample == <<34, 12>>

CalendarInputs ==
  {[kind |-> "calendar", v |-> <<m, h, d>>, flip |-> -1] :
     m \in 0 .. 59, h \in 0 .. 23, d \in DaySample}
  \cup {[kind |-> "calendar", v |-> <<ClockSample[1], ClockSample[2], d>>, flip |-> -1] :
          d \in 1 .. 366}

\* every pattern of the seven minute bits and the six hour bits
PatternInputs ==
  {[kind |-> "pattern", v |-> <<mb, hb>>, flip |-> -1] : mb \in 0 .. 127, hb \in 0 .. 63}

\* bit i (from 1, in source order) of the pattern n over k bits
PatternBit(n, k, i) == (n \div 2^(k - i)) % 2 = 1

RECURSIVE PatternParity(_, _, _)
PatternParity(n, k, i) ==
  IF i > k THEN FALSE ELSE PatternBit(n, k, i) # PatternParity(n, k, i + 1)

\* a frame whose minute and hour bits are the patterns mb and hb, with the
\* parity bits to match; the day and the other positions as in EncodeFrame
PatternFrame(mb, hb) ==
  [p \in 0 .. BufLen - 1 |->
     IF p \in TxPositions(TxMinuteBits)
       THEN BitSymbol(PatternBit(mb, Len(TxMinuteBits),
                                 CHOOSE i \in DOMAIN TxMinuteBits : TxMinuteBits[i][1] = p))
     ELSE IF p \in TxPositions(TxHourBits)
       THEN BitSymbol(PatternBit(hb, Len(TxHourBits),
                                 CHOOSE i \in DOMAIN TxHourBits : TxHourBits[i][1] = p))
     ELSE IF p = 36 THEN BitSymbol(PatternParity(hb, Len(TxHourBits), 1))
     ELSE IF p = 37 THEN BitSymbol(PatternParity(mb, Len(TxMinuteBits), 1))
     ELSE EncodeFrame(0, 0, 158)[p]]

\* the first 38 symbols of a frame, as the buffer holds them at cursor == 38
Prefix(f) == [p \in 0 .. BufLen - 1 |-> IF p < DecodeAt THEN f[p] ELSE Unknown]

InputBuffer(a) ==
  IF a.kind = "calendar" THEN Prefix(EncodeFrame(a.v[1], a.v[2], a.v[3]))
  ELSE Prefix(PatternFrame(a.v[1], a.v[2]))

\* the positions of the minute and hour data bits
FlipPositions == {1, 2, 3, 5, 6, 7, 8} \cup {12, 13, 15, 16, 17, 18}

FlipSymbol(b) == IF b = Short THEN Long ELSE IF b = Long THEN Short ELSE b

InitDecode ==
  /\ now = 0 /\ line = "high" /\ pulses = 0
  /\ pc = "wait_fall"
  /\ up_at = 0 /\ down_at = 0 /\ bit = Unknown
  /\ arg \in CalendarInputs \cup PatternInputs
  /\ buffer = InputBuffer(arg)
  /\ cursor = DecodeAt
  /\ recording = TRUE
  /\ previous_is_marker = FALSE
  /\ result = None
  /\ channel = <<>>
  /\ dpc = "receive" /\ timebase = None /\ jjy_status = FALSE /\ lcd = <<>>
  /\ syms = <<>> /\ sent = <<>> /\ rcvd = <<>> /\ last = "none"
  /\ txpos = 0 /\ frame = <<0, 0, 0>> /\ noise = 0

pureVars == <<now, line, pulses, pc, up_at, down_at, bit, cursor, recording,
              previous_is_marker, channel, dpc, timebase, jjy_status, lcd,
              txpos, frame, noise, syms, sent, rcvd>>

\* to_minute_hour_day(&buffer)
CallDecode ==
  /\ last = "none"
  /\ result' = to_minute_hour_day(buffer)
  /\ last' = "decoded"
  /\ UNCHANGED <<pureVars, buffer, arg>>

\* one data bit of a buffer that decoded is changed, and it is decoded again
FlipAndDecode ==
  /\ last = "decoded"
  /\ arg.kind = "pattern"
  /\ result # None
  /\ \E p \in FlipPositions :
       /\ buffer' = [buffer EXCEPT ![p] = FlipSymbol(buffer[p])]
       /\ arg' = [arg EXCEPT !.flip = p]
  /\ result' = to_minute_hour_day(buffer')
  /\ last' = "flipped"
  /\ UNCHANGED pureVars

NextDecode == CallDecode \/ FlipAndDecode

SpecDecode == InitDecode /\ [][NextDecode]_vars

(***************************************************************************)
(* The redraw on its own.  display_task is handed a TimeBase, either any   *)
(* TimeBase (already in the channel) or the one jjy_task publishes from a  *)
(* buffer that decodes, at the rising edge of the position-38 pulse; time  *)
(* passes before the redraw reads the clock.                               *)
(***************************************************************************)
\* milliseconds that pass between the receive and the redraw's now()
RenderDelays == {974, 975, 2975, 5662000}
\* system_time and clock of the TimeBases handed over as they are
RenderTimes == {0, 10000}
RenderClocks == {0, 3661, 45278, 86399, 86400, 167138}
\* the falling edge of the position-38 pulse
RenderPulseAt == DecodeAt * 1000

HeldInputs ==
  {[kind |-> "held", v |-> <<t0, c0>>, flip |-> -1] : t0 \in RenderTimes, c0 \in RenderClocks}

InitRender ==
  /\ arg \in HeldInputs \cup PatternInputs
  /\ down_at = 0 /\ bit = Unknown
  /\ previous_is_marker = FALSE
  /\ result = None
  /\ dpc = "receive" /\ timebase = None
  /\ syms = <<>> /\ last = "none"
  /\ txpos = 0 /\ frame = <<0, 0, 0>> /\ noise = 0
  /\ IF arg.kind = "held"
       THEN /\ now = arg.v[1] /\ line = "high" /\ pulses = 0
            /\ pc = "wait_fall" /\ up_at = 0
            /\ buffer = [i \in 0 .. BufLen - 1 |-> Unknown]
            /\ cursor = 0 /\ recording = FALSE
            /\ channel = <<TimeBaseUpdate(TimeBase(arg.v[1], arg.v[2]))>>
            /\ sent = channel /\ rcvd = <<>>
            /\ jjy_status = FALSE /\ lcd = <<>>
       ELSE /\ now = RenderPulseAt /\ line = "low" /\ pulses = DecodeAt
            /\ pc = "wait_rise" /\ up_at = RenderPulseAt
            /\ buffer = InputBuffer(arg)
            /\ cursor = DecodeAt /\ recording = TRUE
            /\ channel = <<>>
            /\ sent = <<JJYStatus(TRUE)>> /\ rcvd = sent
            /\ jjy_status = TRUE /\ lcd = Render(None, TRUE, RenderPulseAt)

\* the time the TimeBase was handed over at
RenderStart == IF arg.kind = "held" THEN arg.v[1] ELSE down_at

\* the position-38 pulse, a Long, ends
RenderPulseEnds == pc = "wait_rise" /\ Rises(LongWidth) /\ UNCHANGED txVars

\* Display Clear and Timer::after_micros(530), and whatever else delays
\* display_task before it reads Instant::now()
TimePasses ==
  /\ dpc = "redraw"
  /\ timebase # None
  /\ now = RenderStart
  /\ \E d \in RenderDelays : now' = now + d
  /\ UNCHANGED <<line, pulses, txVars, jjyVars, channel, sent, dispVars, arg>>

NextRender == RenderPulseEnds \/ Receive \/ TimePasses \/ Redraw

SpecRender == InitRender /\ [][NextRender]_vars

(***************************************************************************)
(* The classifier on its own: jjy_task has taken the falling edge of a     *)
(* pulse and waits for its rising edge, which comes elapsed_ms later.      *)
(***************************************************************************)
ElapsedInputs == {[kind |-> "elapsed", v |-> <<ms>>, flip |-> -1] : ms \in 0 .. MaxElapsed}

InitClassify ==
  /\ arg \in ElapsedInputs
  /\ now = 1000 /\ line = "low" /\ pulses = 1
  /\ pc = "wait_rise"
  /\ up_at = 1000 /\ down_at = 0 /\ bit = Unknown
  /\ buffer = [i \in 0 .. BufLen - 1 |-> Unknown]
  /\ cursor = 0
  /\ recording = FALSE
  /\ previous_is_marker = FALSE
  /\ result = None
  /\ channel = <<JJYStatus(TRUE)>>
  /\ dpc = "receive" /\ timebase = None /\ jjy_status = FALSE /\ lcd = <<>>
  /\ syms = <<>> /\ sent = channel /\ rcvd = <<>> /\ last = "none"
  /\ txpos = 0 /\ frame = <<0, 0, 0>> /\ noise = 0

\* the rising edge, elapsed_ms after the falling edge
ClassifyPulse == pc = "wait_rise" /\ Rises(arg.v[1]) /\ UNCHANGED txVars

NextClassify == ClassifyPulse

SpecClassify == InitClassify /\ [][NextClassify]_vars

(***************************************************************************)
(* Helpers of the properties.                                              *)
(***************************************************************************)
NSyms == Len(syms)

\* the symbol processed k symbols before the latest one (k = 0: the latest)
Back(k) == syms[NSyms - k]

\* no two adjacent Markers among the symbols processed
NoMarkerPair == \A i \in 1 .. NSyms - 1 : ~(syms[i] = Marker /\ syms[i + 1] = Marker)

IsTimeBaseUpdate(m) == m.type = "TimeBaseUpdate"

LastSent == sent[Len(sent)]

\* the step processes a symbol (classifies it and runs the decoder on it)
Processes == syms' # syms

\* the latest symbol has been dealt with to the end of the loop body
Settled == pc = "wait_fall" /\ line = "high"

\* the falling edge of the latest pulse
LatestFallingEdge == pulses * 1000

\* the latest 40 symbols as a frame: the Marker before position 0, then
\* positions 0..38
FramePos(p) == Back(DecodeAt - p)

FrameTail == [p \in 0 .. BufLen - 1 |-> IF p < DecodeAt THEN FramePos(p) ELSE Unknown]

\* two Markers, then positions 1..37 without Unknown and decodable, then a
\* position 38 that is not Unknown
WellFormedTail ==
  /\ NSyms >= DecodeAt + 2
  /\ FramePos(-1) = Marker
  /\ FramePos(0) = Marker
  /\ \A p \in 1 .. DecodeAt : FramePos(p) # Unknown
  /\ to_minute_hour_day(FrameTail) # None

\* no two adjacent Markers among positions 1..38
NoPairInTail ==
  \A p \in 1 .. DecodeAt - 1 : ~(FramePos(p) = Marker /\ FramePos(p + 1) = Marker)

ExpectedUpdate ==
  LET mhd == Unwrap(to_minute_hour_day(FrameTail))
  IN  TimeBaseUpdate(TimeBase(LatestFallingEdge, mhd[1] * 60 + mhd[2] * 3600 + 38))

\* the latest pulse published JJYStatus(false) and then one TimeBaseUpdate
PublishedOnce(m) ==
  /\ last = "published"
  /\ Len(sent) >= 2
  /\ LastSent = m
  /\ sent[Len(sent) - 1] = JJYStatus(FALSE)

(***************************************************************************)
(* C1: if no two adjacent Markers have been processed, recording is false. *)
(* The source leaves previous_is_marker set when an Unknown comes, so      *)
(* Marker, Unknown, Marker starts a frame.                                 *)
(***************************************************************************)
C1_NoRecordingWithoutMarkerPair == NoMarkerPair => ~recording

(***************************************************************************)
(* C2, as claimed: after an Unknown symbol or a failed decode the decoder  *)
(* state is the initial state.                                             *)
(***************************************************************************)
C2_ResetIsInitialState ==
  (Settled /\ last \in {"unknown", "failed"}) =>
    /\ buffer = [i \in 0 .. BufLen - 1 |-> Unknown]
    /\ cursor = 0
    /\ ~recording
    /\ ~previous_is_marker

(***************************************************************************)
(* C2, amended: a step that processes an Unknown symbol or fails to decode *)
(* at cursor == 38 leaves cursor 0 and recording false and does not touch  *)
(* the buffer; previous_is_marker is unchanged by an Unknown and tells     *)
(* whether the symbol was a Marker after a failed decode.                  *)
(***************************************************************************)
C2_ResetFramingOnly ==
  [][(Processes /\ last' \in {"unknown", "failed"}) =>
       /\ cursor' = 0
       /\ ~recording'
       /\ buffer' = buffer
       /\ previous_is_marker' =
            (IF bit' = Unknown THEN previous_is_marker ELSE bit' = Marker)]_vars

\* a decode has failed on a buffer that holds a frame
C2_Witness ==
  /\ Settled
  /\ last = "failed"
  /\ cursor = 0
  /\ ~recording
  /\ buffer[0] = Marker

(***************************************************************************)
(* C3, as claimed: two Markers, 37 decodable symbols and a position-38     *)
(* symbol that is not Unknown publish one TimeBaseUpdate with clock =      *)
(* minute * 60 + hour * 3600 + 38 and system_time = the falling edge of    *)
(* the position-38 pulse.                                                  *)
(***************************************************************************)
C3_FramePublishes ==
  (Settled /\ WellFormedTail) => PublishedOnce(ExpectedUpdate)

(***************************************************************************)
(* C3, amended: the same, provided no two adjacent positions of 1..38 hold *)
(* Markers (positions 9-11, 19-21 and 34-35 are not decoded, so a frame    *)
(* that decodes may hold a pair there; the pair restarts the frame).       *)
(***************************************************************************)
C3_FrameWithoutPairPublishes ==
  (Settled /\ WellFormedTail /\ NoPairInTail) => PublishedOnce(ExpectedUpdate)

\* minute 34, hour 12: clock 45278
C3_Witness ==
  /\ Settled
  /\ WellFormedTail
  /\ NoPairInTail
  /\ last = "published"
  /\ LastSent = TimeBaseUpdate(TimeBase(LatestFallingEdge, 45278))
  /\ buffer[DecodeAt] = bit

(***************************************************************************)
(* C4: a step that processes a symbol with recording true, cursor == 38    *)
(* and a buffer to_minute_hour_day fails on publishes no TimeBaseUpdate    *)
(* (only the pulse's JJYStatus(false) is sent), sets cursor to 0 and       *)
(* recording to false and stores nothing.                                  *)
(***************************************************************************)
C4_DecodeFailureResets ==
  [][(/\ Processes
      /\ bit' # Unknown
      /\ ~FrameStart(bit', previous_is_marker)
      /\ recording
      /\ cursor = DecodeAt
      /\ to_minute_hour_day(buffer) = None) =>
       /\ sent' = Append(sent, JJYStatus(FALSE))
       /\ cursor' = 0
       /\ ~recording'
       /\ buffer' = buffer
       /\ pc' = "wait_fall"]_vars

\* the decode failed on a parity bit: every position read holds a bit
C4_Witness ==
  /\ Settled
  /\ last = "failed"
  /\ result = None
  /\ \A p \in ReadPositions : buffer[p] \in {Short, Long}
  /\ LastSent = JJYStatus(FALSE)

(***************************************************************************)
(* C5: a step that processes an Unknown symbol sets cursor to 0 and        *)
(* recording to false, stores nothing and publishes no TimeBaseUpdate;     *)
(* and once an Unknown has been processed, two Markers in a row leave      *)
(* recording true, the second Marker in buffer[0] and cursor 1.            *)
(***************************************************************************)
C5_AfterUnknown ==
  \E i \in 1 .. NSyms - 2 : syms[i] = Unknown

C5_MarkerPairLast ==
  NSyms >= 2 /\ Back(1) = Marker /\ Back(0) = Marker

C5_UnknownResetsAndFrameRestarts ==
  /\ [][(Processes /\ bit' = Unknown) =>
          /\ cursor' = 0
          /\ ~recording'
          /\ buffer' = buffer
          /\ sent' = Append(sent, JJYStatus(FALSE))]_vars
  /\ []((C5_AfterUnknown /\ C5_MarkerPairLast) =>
          (recording /\ buffer[0] = Marker /\ cursor = 1))

\* a frame was being recorded, an Unknown ended it, and the next pair of
\* Markers has started a frame again
C5_Witness ==
  /\ C5_MarkerPairLast
  /\ \E i \in 3 .. NSyms - 2 :
       syms[i] = Unknown /\ syms[i - 1] # Marker /\ syms[i - 2] # Marker
  /\ recording
  /\ cursor = 1
  /\ buffer[0] = Marker
  /\ buffer[5] # Unknown

(***************************************************************************)
(* C6: a buffer on which to_minute_hour_day succeeds, with one minute or   *)
(* hour data bit changed (Short to Long or Long to Short), makes it return *)
(* None.                                                                   *)
(***************************************************************************)
C6_DataBitFlipFailsDecode ==
  last = "flipped" =>
    \A orig \in {InputBuffer(arg)} :
      (/\ arg.flip \in FlipPositions
       /\ to_minute_hour_day(orig) # None
       /\ buffer = [orig EXCEPT ![arg.flip] = FlipSymbol(orig[arg.flip])])
        => result = None

\* the 10-hours bit of a pattern outside the calendar was changed
C6_Witness ==
  /\ last = "flipped"
  /\ arg.v = <<127, 63>>
  /\ arg.flip = 13
  /\ buffer[13] = Long
  /\ result = None
  /\ to_minute_hour_day(InputBuffer(arg)) = Some(<<85, 45, 158>>)

(***************************************************************************)
(* C7: minute 0..59, hour 0..23 and day 1..366 encoded in BCD (Short = 1,  *)
(* Long = 0, parity at 36 and 37, Marker at 0, 9, 19, 29, Long elsewhere)  *)
(* decode to the same minute, hour and day.                                *)
(***************************************************************************)
C7_RoundTrip ==
  (last = "decoded" /\ arg.kind = "calendar") => result = Some(arg.v)

C7_Witness ==
  /\ last = "decoded"
  /\ arg.kind = "calendar"
  /\ arg.v = <<59, 23, 366>>
  /\ buffer[0] = Marker /\ buffer[9] = Marker /\ buffer[19] = Marker /\ buffer[29] = Marker
  /\ result = Some(<<59, 23, 366>>)

(***************************************************************************)
(* C8: cursor is in 0..59; cursor is 0 whenever recording is false; and    *)
(* between symbols, when recording is true and cursor = k, buffer[0..k-1]  *)
(* are the k symbols processed last, in order, none of them Unknown.       *)
(***************************************************************************)
C8_CursorAndBufferInvariant ==
  /\ cursor \in 0 .. BufLen - 1
  /\ ~recording => cursor = 0
  /\ (recording /\ pc # "send_tb") =>
       /\ NSyms >= cursor
       /\ \A i \in 0 .. cursor - 1 :
            buffer[i] = syms[NSyms - cursor + 1 + i] /\ buffer[i] # Unknown

\* the cursor has wrapped from 59 to 0 without a frame start
C8_Witness ==
  /\ recording
  /\ cursor = 3
  /\ NSyms > BufLen
  /\ buffer[BufLen - 1] \in {Short, Long}
  /\ buffer[0] = Marker
  /\ Back(3) # Marker

(***************************************************************************)
(* C9: what display_task has received is a prefix of what jjy_task has     *)
(* sent, and what it has sent is what was received followed by what the    *)
(* channel holds: same order, nothing lost, nothing twice.                 *)
(***************************************************************************)
C9_ReceivedIsPrefixOfSent ==
  /\ Len(rcvd) <= Len(sent)
  /\ rcvd = SubSeq(sent, 1, Len(rcvd))
  /\ sent = rcvd \o channel

C9_Witness ==
  /\ Len(rcvd) >= 3
  /\ Len(channel) >= 2
  /\ rcvd[1] = JJYStatus(TRUE)
  /\ rcvd[2] = JJYStatus(FALSE)

(***************************************************************************)
(* C10: the channel accepts, pulse after pulse, JJYStatus(true), then      *)
(* JJYStatus(false), then at most one TimeBaseUpdate; a TimeBaseUpdate is  *)
(* accepted only after a decode at cursor == 38 that succeeded, and the    *)
(* position-38 symbol is stored in no step before the one that accepts it. *)
(***************************************************************************)
\* the i-th update accepted may follow the one before it
C10_Follows(s, i) ==
  IF i = 1 THEN s[1] = JJYStatus(TRUE)
  ELSE IF s[i - 1] = JJYStatus(TRUE) THEN s[i] = JJYStatus(FALSE)
  ELSE IF s[i - 1] = JJYStatus(FALSE) THEN s[i] = JJYStatus(TRUE) \/ IsTimeBaseUpdate(s[i])
  ELSE s[i] = JJYStatus(TRUE)

C10_Accepted ==
  /\ Len(sent') > Len(sent)
  /\ IsTimeBaseUpdate(sent'[Len(sent')])

C10_PublicationOrder ==
  [][/\ sent' # sent =>
          /\ Len(sent') > Len(sent)
          /\ SubSeq(sent', 1, Len(sent)) = sent
          /\ \A i \in Len(sent) + 1 .. Len(sent') : C10_Follows(sent', i)
     /\ C10_Accepted =>
          /\ recording /\ cursor = DecodeAt
          /\ to_minute_hour_day(buffer) # None
     /\ (buffer' # buffer /\ cursor = DecodeAt /\ cursor' = DecodeAt + 1) => C10_Accepted
     /\ pc' = "send_tb" => (~C10_Accepted /\ buffer' = buffer /\ cursor' = DecodeAt)]_vars

\* a TimeBaseUpdate went out after the two status updates of its pulse
C10_Witness ==
  /\ Settled
  /\ last = "published"
  /\ Len(sent) >= 3
  /\ IsTimeBaseUpdate(LastSent)
  /\ sent[Len(sent) - 1] = JJYStatus(FALSE)
  /\ sent[Len(sent) - 2] = JJYStatus(TRUE)
  /\ cursor = DecodeAt + 1
  /\ buffer[DecodeAt] = bit

(***************************************************************************)
(* C11: DRAW_CHANNEL never holds more than 4 updates.  A send that finds   *)
(* it full changes neither the channel nor what it has accepted: jjy_task  *)
(* stays at that send, buffer, cursor, recording and previous_is_marker    *)
(* stay as they are and the channel only loses its head to display_task,   *)
(* until the channel has room again.                                       *)
(***************************************************************************)
\* jjy_task is suspended at one of its three sends
SendPending == pc \in {"send_true", "send_false", "send_tb"}

C11_FullChannelSuspendsSender ==
  /\ [](Len(channel) <= Capacity)
  /\ [][/\ (SendPending' /\ pc' # pc) =>
             /\ Full(channel')
             /\ Len(channel') >= Len(channel)
             /\ SubSeq(channel', 1, Len(channel)) = channel
             /\ sent' = sent \o SubSeq(channel', Len(channel) + 1, Len(channel'))
        /\ (SendPending /\ Full(channel)) =>
             /\ pc' = pc
             /\ <<buffer, cursor, recording, previous_is_marker>>'
                  = <<buffer, cursor, recording, previous_is_marker>>
             /\ sent' = sent
             /\ channel' = channel \/ channel' = Tail(channel)
        /\ (SendPending /\ pc' # pc) =>
             /\ ~Full(channel)
             /\ Len(sent') > Len(sent)
             /\ SubSeq(channel', 1, Len(channel)) = channel]_vars

\* the publication of a decoded frame waits on the full channel
C11_Witness ==
  /\ pc = "send_tb"
  /\ Full(channel)
  /\ cursor = DecodeAt
  /\ recording
  /\ ~IsTimeBaseUpdate(LastSent)

(***************************************************************************)
(* C12: a redraw with TimeBase {system_time = t0, clock = c0} at time      *)
(* t >= t0 writes HH:MM:SS for s = (c0 + (t - t0 + 25) div 1000) mod       *)
(* 86400: HH = s div 3600, MM = (s mod 3600) div 60, SS = s mod 60, two    *)
(* decimal digits each.                                                    *)
(***************************************************************************)
\* the two ASCII digits of n
C12_TwoDigits(n) == <<48 + (n \div 10), 48 + (n % 10)>>

C12_Text(s) ==
  C12_TwoDigits(s \div 3600) \o <<58>> \o C12_TwoDigits((s % 3600) \div 60)
    \o <<58>> \o C12_TwoDigits(s % 60)

C12_RedrawShowsClock ==
  [][(dpc = "redraw" /\ dpc' = "receive" /\ timebase # None) =>
       \E tb \in {Unwrap(timebase)} :
         /\ now >= tb.system_time
         /\ SubSeq(lcd', 1, 8)
              = C12_Text((tb.clock + (now - tb.system_time + 25) \div 1000) % 86400)]_vars

\* t0 = 10000, c0 = 3661, t = 12975: 01:01:04
C12_Witness ==
  /\ timebase = Some(TimeBase(10000, 3661))
  /\ now = 12975
  /\ dpc = "receive"
  /\ SubSeq(lcd, 1, 8) = <<48, 49, 58, 48, 49, 58, 48, 52>>

(***************************************************************************)
(* C13, as claimed: for elapsed_ms in 0..2000 the classifier returns       *)
(* Marker iff 160 < elapsed_ms < 240, Short iff 400 < elapsed_ms < 600,    *)
(* Long iff 640 < elapsed_ms < 960 and Unknown otherwise, and is_in_width  *)
(* (e, n) is the integer test 4n < 5e < 6n.  In f32, 200 * 1.2 and         *)
(* 800 * 1.2 round to values above 240 and 960, so that 240 is a Marker    *)
(* and 960 a Long.                                                         *)
(***************************************************************************)
C13_IntegerTest(e, n) == 4 * n < 5 * e /\ 5 * e < 6 * n

C13_Expected(e) ==
  IF 160 < e /\ e < 240 THEN Marker
  ELSE IF 400 < e /\ e < 600 THEN Short
  ELSE IF 640 < e /\ e < 960 THEN Long
  ELSE Unknown

C13_ClassifierIsIntegerTest ==
  last # "none" =>
    \A e \in {down_at - up_at} :
      /\ bit = C13_Expected(e)
      /\ \A n \in {MarkerWidth, ShortWidth, LongWidth} :
           is_in_width(e, n) = C13_IntegerTest(e, n)

(***************************************************************************)
(* C14: on Marker, Marker, Marker, Short from the initial state the second *)
(* and the third Marker are both frame starts: after either, recording is  *)
(* true, buffer[0] is Marker and cursor is 1; the Short is then stored at  *)
(* buffer[1].                                                              *)
(***************************************************************************)
C14_LaterMarkerWins ==
  /\ syms \in {<<Marker, Marker>>, <<Marker, Marker, Marker>>} =>
       /\ recording
       /\ previous_is_marker
       /\ buffer[0] = Marker
       /\ cursor = 1
       /\ \A p \in 1 .. BufLen - 1 : buffer[p] = Unknown
  /\ syms = <<Marker, Marker, Marker, Short>> =>
       /\ recording
       /\ buffer[0] = Marker
       /\ buffer[1] = Short
       /\ cursor = 2
       /\ \A p \in 2 .. BufLen - 1 : buffer[p] = Unknown

C14_Witness ==
  /\ syms = <<Marker, Marker, Marker, Short>>
  /\ pc = "wait_fall"
  /\ buffer[1] = Short
  /\ cursor = 2

(***************************************************************************)
(* C15, as claimed: the decoder, which leaves previous_is_marker as it is  *)
(* on an Unknown symbol, and a decoder that sets it to false on Unknown    *)
(* have the same recording flag, cursor, buffer and number of              *)
(* TimeBaseUpdates published after every symbol.  They differ on Marker,   *)
(* Unknown, Marker, which starts a frame in the source only.               *)
(***************************************************************************)
\* the decoder that resets previous_is_marker on Unknown, as a function of
\* the symbols processed
C15_Initial ==
  [buffer |-> [i \in 0 .. BufLen - 1 |-> Unknown], cursor |-> 0, recording |-> FALSE,
   previous_is_marker |-> FALSE, published |-> 0]

C15_Step(st, b) ==
  LET rec == RecordingAfter(b, st.previous_is_marker, st.recording)
      cur == CursorAfter(b, st.previous_is_marker, st.cursor)
      stored == [st EXCEPT !.buffer = StoreBit(st.buffer, cur, b),
                           !.cursor = NextCursor(cur),
                           !.recording = rec,
                           !.previous_is_marker = PreviousAfter(b)]
  IN  IF b = Unknown
        THEN [st EXCEPT !.cursor = 0, !.recording = FALSE, !.previous_is_marker = FALSE]
      ELSE IF ~rec
        THEN [st EXCEPT !.cursor = cur, !.previous_is_marker = PreviousAfter(b)]
      ELSE IF cur # DecodeAt
        THEN stored
      ELSE IF to_minute_hour_day(st.buffer) = None
        THEN [st EXCEPT !.cursor = 0, !.recording = FALSE,
                        !.previous_is_marker = PreviousAfter(b)]
      ELSE [stored EXCEPT !.published = st.published + 1]

RECURSIVE C15_Run(_, _)
C15_Run(s, n) == IF n = 0 THEN C15_Initial ELSE C15_Step(C15_Run(s, n - 1), s[n])

C15_Published == Cardinality({i \in DOMAIN sent : IsTimeBaseUpdate(sent[i])})

C15_SameAsResetOnUnknown ==
  pc # "send_tb" =>
    \A alt \in {C15_Run(syms, NSyms)} :
      /\ recording = alt.recording
      /\ cursor = alt.cursor
      /\ buffer = alt.buffer
      /\ C15_Published = alt.published

(***************************************************************************)
(* C16, as claimed: when a TimeBaseUpdate has been published, the symbol   *)
(* processed 38 symbols before the latest one was a Marker and the symbol  *)
(* before that one was a Marker too (a detected frame start).  After the   *)
(* cursor has wrapped from 59 to 0 the decode at cursor == 38 runs again   *)
(* without a frame start.                                                  *)
(***************************************************************************)
C16_PublishedAfterFrameStart ==
  last = "published" =>
    /\ NSyms >= DecodeAt + 2
    /\ Back(DecodeAt) = Marker
    /\ Back(DecodeAt + 1) = Marker

(***************************************************************************)
(* C17, as claimed: every pulse of the input yields one classified symbol, *)
(* and the up_at and down_at of a symbol are the falling edge and the      *)
(* rising edge of one pulse, however the line, jjy_task and display_task   *)
(* interleave.  An edge that comes while jjy_task is suspended at a send   *)
(* on the full channel is not seen.                                        *)
(***************************************************************************)
C17_OneSymbolPerPulse ==
  /\ Settled => NSyms = pulses
  /\ (pc = "wait_fall" /\ last # "none") =>
       /\ up_at = (down_at \div 1000) * 1000
       /\ down_at - up_at \in PulseWidths

(***************************************************************************)
(* C18: when display_task and a jjy_task whose send has room are           *)
(* eventually run, every update the channel accepts is eventually received *)
(* and its redraw completed, a jjy_task suspended at a send eventually     *)
(* leaves it, and in no state are both tasks blocked, jjy_task at a send   *)
(* that has no room and display_task at a receive with nothing to take.    *)
(***************************************************************************)
\* the updates the line's pulses produce: two JJYStatus a pulse (a
\* TimeBaseUpdate takes 40 pulses)
C18_Updates == 1 .. 2 * MaxFairPulses

C18_EveryUpdateIsDrawn ==
  /\ \A n \in C18_Updates :
       (Len(sent) >= n) ~> (Len(rcvd) >= n /\ dpc = "receive")
  /\ SendPending ~> ~SendPending
  /\ [](~(/\ SendPending /\ ~ENABLED ResumeSend
          /\ dpc = "receive" /\ ~ENABLED Receive))

\* the send of the third falling edge was suspended on the full channel
\* (its rising edge has passed), was resumed, and all five updates have
\* been received and drawn
C18_Witness ==
  /\ pulses = 3
  /\ line = "high"
  /\ pc = "wait_rise"
  /\ Len(sent) = 5
  /\ rcvd = sent
  /\ dpc = "receive"
  /\ lcd = Render(None, TRUE, now)

(***************************************************************************)
(* C19: once display_task holds a TimeBase it holds one in every later     *)
(* state; its timebase changes only in the step that receives a            *)
(* TimeBaseUpdate, to the TimeBase received; and every redraw made while   *)
(* it holds one writes the clock, not "Sync".                              *)
(***************************************************************************)
C19_TimeBaseStays ==
  [][/\ timebase # None => timebase' # None
     /\ timebase' # timebase =>
          /\ dpc = "receive"
          /\ channel # <<>>
          /\ IsTimeBaseUpdate(Head(channel))
          /\ timebase' = Some(Head(channel).base)
     /\ (timebase # None /\ dpc = "redraw" /\ dpc' = "receive") =>
          /\ SubSeq(lcd', 1, 4) # SyncText
          /\ lcd'[3] = 58 /\ lcd'[6] = 58]_vars

\* a frame was published and shown, the decode of the next frame has
\* failed, and the display still shows the clock
C19_Witness ==
  /\ timebase # None
  /\ last = "failed"
  /\ ~recording
  /\ rcvd = sent
  /\ dpc = "receive"
  /\ lcd[3] = 58
  /\ ~jjy_status

(***************************************************************************)
(* C20: whatever TimeBase jjy_task publishes, also one decoded from a      *)
(* parity-valid pattern outside the calendar (minute up to 85, hour up to  *)
(* 45, clock up to 167138), every redraw of the clock writes an hour of at *)
(* most 23 and a minute and a second of at most 59: the bytes are          *)
(* '0'..'2' then '0'..'9' (up to '3' after '2'), and '0'..'5' then         *)
(* '0'..'9' twice.                                                         *)
(***************************************************************************)
C20_ClockShown == lcd # <<>> /\ lcd[3] = 58

C20_DigitsInRange ==
  C20_ClockShown =>
    /\ lcd[1] \in 48 .. 50
    /\ lcd[2] \in 48 .. 57
    /\ lcd[1] = 50 => lcd[2] <= 51
    /\ lcd[4] \in 48 .. 53
    /\ lcd[5] \in 48 .. 57
    /\ lcd[7] \in 48 .. 53
    /\ lcd[8] \in 48 .. 57

\* minute 85, hour 45 published with clock 167138, shown as 22:25:38 one
\* pulse width later
C20_Witness ==
  /\ arg.kind = "pattern"
  /\ last = "published"
  /\ timebase = Some(TimeBase(RenderPulseAt, 167138))
  /\ now = RenderPulseAt + LongWidth + 974
  /\ dpc = "receive"
  /\ SubSeq(lcd, 1, 8) = <<50, 50, 58, 50, 53, 58, 51, 57>>

====
